---- MODULE Spec2Model ----
(***************************************************************************)
(* Model of ecs-tiny (src/src/lib.rs): the ECS store made of one slab of   *)
(* entities, one slab of component records per component kind, and the two *)
(* association indices relation_0 (entity -> directory of component keys)  *)
(* and relation_1 ((entity, kind) -> slab of component slots).             *)
(*                                                                         *)
(* Keys are 0-based as in the code; a slab's entries sequence is 1-based,  *)
(* so key n lives at entries[n + 1].  An Option is a sequence of length 0  *)
(* (None) or 1 (Some).  The `as u32` / `as usize` casts of the code are    *)
(* the identity on the key range the bounds below allow.                   *)
(***************************************************************************)
EXTENDS Integers, Sequences, FiniteSets, TLC

\* ------------------------------------------------------------------ bounds
\* Largest number of slots the entity slab may grow to.
MaxEntities == 2
\* Largest number of components alive at once, over all kinds.
MaxComps == 3
\* Largest number of public calls in one run of the program.
MaxCalls == 6

\* ------------------------------------------------------------ value domains
\* CompKind of src/tests/test.rs: the discriminants of enum Comp.
Kinds == {"I32", "Unit"}

\* enum Comp of src/tests/test.rs, with the values the tests use.
Comps == {[tag |-> "I32", val |-> 42], [tag |-> "I32", val |-> 63],
          [tag |-> "Unit", val |-> 0]}

\* K::from(&comp): the strum discriminant of a Comp value.
KindOf(comp) == comp.tag

\* Entity keys a caller may pass: every key the slab can issue and one more.
EntityKeys == 0 .. MaxEntities
\* Slot numbers a caller may pass inside a component key.
SlotKeys == 0 .. MaxComps
\* Component keys a caller may pass: CompKey<K> = (K, u32).
CompKeys == Kinds \X SlotKeys

None == << >>
Some(x) == << x >>

\* ---------------------------------------------------------------- slab
\* slab::Slab<T>: a vector of Occupied(value) / Vacant(next free key) entries
\* and the head `next` of the LIFO free list.
Occupied(v) == [val |-> Some(v), next |-> 0]
Vacant(n) == [val |-> None, next |-> n]

SlabNew == [entries |-> << >>, next |-> 0]

\* Slab::contains(key)
SlabContains(s, key) == key < Len(s.entries) /\ s.entries[key + 1].val # None

\* Slab::get(key) / Slab::get_mut(key), as an Option
SlabGet(s, key) == IF SlabContains(s, key) THEN s.entries[key + 1].val ELSE None

\* A vacant key that ignores the free list: always the end of the vector.
SlabVacantKeyAtEnd(s) == Len(s.entries)

\* Slab::vacant_key()
SlabVacantKey(s) == s.next

\* An insert that always grows the vector and leaves the free list alone.
SlabInsertAtEnd(s, v) ==
    [entries |-> Append(s.entries, Occupied(v)),
     next |-> IF s.next = Len(s.entries) THEN s.next + 1 ELSE s.next]

\* Slab::insert(val): the slab after the insertion (the key is vacant_key()).
SlabInsert(s, v) ==
    LET key == s.next IN
    IF key = Len(s.entries)
    THEN [entries |-> Append(s.entries, Occupied(v)), next |-> key + 1]
    ELSE [entries |-> [s.entries EXCEPT ![key + 1] = Occupied(v)],
          next |-> s.entries[key + 1].next]

\* A try_remove that frees the entry and does not put it on the free list.
SlabTryRemoveLeaks(s, key) ==
    IF SlabContains(s, key)
    THEN [entries |-> [s.entries EXCEPT ![key + 1] = Vacant(s.next)],
          next |-> s.next]
    ELSE s

\* A try_remove that also drops every entry after the removed one.
SlabTryRemoveTruncate(s, key) ==
    IF SlabContains(s, key)
    THEN [entries |-> Append(SubSeq(s.entries, 1, key), Vacant(s.next)),
          next |-> key]
    ELSE s

\* A try_remove that frees the entry without looking whether it is occupied.
SlabTryRemoveNoRestore(s, key) ==
    IF key < Len(s.entries)
    THEN [entries |-> [s.entries EXCEPT ![key + 1] = Vacant(s.next)],
          next |-> key]
    ELSE s

\* Slab::try_remove(key): the slab after the removal (unchanged on None);
\* the removed value is SlabGet(s, key).
SlabTryRemove(s, key) ==
    IF SlabContains(s, key)
    THEN [entries |-> [s.entries EXCEPT ![key + 1] = Vacant(s.next)],
          next |-> key]
    ELSE s

\* An iteration that walks the vector from its end.
SlabKeysDescending(s) ==
    SelectSeq([i \in 1 .. Len(s.entries) |-> Len(s.entries) - i],
              LAMBDA key : SlabContains(s, key))

\* Slab::iter(): the occupied keys in ascending key order.
SlabKeys(s) ==
    SelectSeq([i \in 1 .. Len(s.entries) |-> i - 1],
              LAMBDA key : SlabContains(s, key))

\* Slab::len(): the number of occupied entries.
SlabLen(s) == Len(SlabKeys(s))

\* ----------------------------------------------------------------- state
VARIABLES
    entities,     \* ECS::entities: slab::Slab<()>
    comp_metas,   \* ECS::comp_metas: kind -> slab of CompMeta
    relation_0,   \* ECS::relation_0: entity -> slab of (kind, slot)
    relation_1,   \* ECS::relation_1: (entity, kind) -> slab of slot
    panicked,     \* an IntegrityCheck::check() met None: the call panicked
    last,         \* the last public call: its name, arguments and result
    calls,        \* the number of public calls made so far
    issued        \* history: the components inserted and not removed since,
                  \* oldest first, as the caller knows them: key, owner and
                  \* the value the caller last gave (inserted or wrote)

vars == << entities, comp_metas, relation_0, relation_1, panicked, last, calls,
          issued >>

\* The fields of struct ECS as one value.
Store == [entities |-> entities, comp_metas |-> comp_metas,
          relation_0 |-> relation_0, relation_1 |-> relation_1]

\* A map lookup that yields an empty slab for a missing key:
\* AHashMap::entry(key).or_default().
OrDefault(map, key) == IF key \in DOMAIN map THEN map[key] ELSE SlabNew

\* map.insert(key, value) on a function with a growing domain.
MapPut(map, key, value) ==
    [x \in DOMAIN map \cup {key} |-> IF x = key THEN value ELSE map[x]]

\* A remove that leaves the entry in the map.
MapRemoveNothing(map, key) == map

\* AHashMap::remove(key)
MapRemove(map, key) == [x \in DOMAIN map \ {key} |-> map[x]]

EmptyMap == [x \in {} |-> SlabNew]

\* A call record.
Call(op, e, k, c, res) == [op |-> op, e |-> e, k |-> k, c |-> c, res |-> res]
NoEntity == 0 - 1
NoKey == << >>
NoComp == << >>

Init ==
    /\ entities = SlabNew
    /\ comp_metas = EmptyMap
    /\ relation_0 = EmptyMap
    /\ relation_1 = EmptyMap
    /\ panicked = FALSE
    /\ last = Call("new", NoEntity, NoKey, NoComp, None)
    /\ calls = 0
    /\ issued = << >>

\* The result of a public call: the store after it, the value it returns and
\* whether it panicked in an integrity check.
Ret(self, ret, panic) == [self |-> self, ret |-> ret, panic |-> panic]

\* Option<T>::check(): the value inside Some (the call panics on None, which
\* the callers below test before they unwrap).
Check(opt) == opt[1]

\* ------------------------------------------------------------- entities
\* ECS::insert_entity: the key is the slab's vacant key.
insert_entity(self) ==
    Ret([self EXCEPT !.entities = SlabInsert(self.entities, "unit")],
        SlabVacantKey(self.entities), FALSE)

\* A turn of the cascade that removes the record and leaves its entry of
\* relation_1.
CascadeStepKeepsIndex(acc, entity_key, entry) ==
    IF acc.panic THEN acc
    ELSE IF entry[1] \notin DOMAIN acc.comp_metas
         \/ ~SlabContains(acc.comp_metas[entry[1]], entry[2])
    THEN [acc EXCEPT !.panic = TRUE]
    ELSE [acc EXCEPT !.comp_metas[entry[1]] = SlabTryRemove(@, entry[2])]

\* One turn of the loop of ECS::remove_entity over the removed directory:
\* remove the component record, then its entry of relation_1.
\* acc = [comp_metas, relation_1, panic].
CascadeStep(acc, entity_key, entry) ==
    LET kind_key == entry[1]
        slab_key == entry[2]
    IN
    IF acc.panic THEN acc
    ELSE IF kind_key \notin DOMAIN acc.comp_metas
         \/ ~SlabContains(acc.comp_metas[kind_key], slab_key)
    THEN [acc EXCEPT !.panic = TRUE]
    ELSE
        LET comp_meta == Check(SlabGet(acc.comp_metas[kind_key], slab_key))
            metas == [acc.comp_metas EXCEPT
                        ![kind_key] = SlabTryRemove(@, slab_key)]
            rkey == << entity_key, kind_key >>
        IN
        IF rkey \notin DOMAIN acc.relation_1
           \/ ~SlabContains(acc.relation_1[rkey], comp_meta.relation_1)
        THEN [acc EXCEPT !.comp_metas = metas, !.panic = TRUE]
        ELSE [acc EXCEPT !.comp_metas = metas,
                         !.relation_1 = [@ EXCEPT ![rkey] =
                             SlabTryRemove(@, comp_meta.relation_1)]]

\* The loop of ECS::remove_entity: the directory's entries in slab order.
RECURSIVE Cascade(_, _, _)
Cascade(acc, entity_key, entries) ==
    IF entries = << >> THEN acc
    ELSE Cascade(CascadeStep(acc, entity_key, Head(entries)),
                 entity_key, Tail(entries))

\* A cascade that stops after the first entry of the directory.
DirEntriesFirstOnly(dir) ==
    LET keys == SlabKeys(dir) IN
    [i \in 1 .. (IF Len(keys) > 0 THEN 1 ELSE 0) |-> Check(SlabGet(dir, keys[i]))]

\* The (kind, slot) entries of a directory slab, in slab order.
DirEntries(dir) ==
    LET keys == SlabKeys(dir) IN
    [i \in 1 .. Len(keys) |-> Check(SlabGet(dir, keys[i]))]

\* A remove_entity that frees the entity slot and leaves its components.
remove_entity_no_cascade(self, entity_key) ==
    IF SlabGet(self.entities, entity_key) = None
    THEN Ret(self, None, FALSE)
    ELSE Ret([self EXCEPT !.entities = SlabTryRemove(@, entity_key)],
             Some("unit"), FALSE)

\* ECS::remove_entity
remove_entity(self, entity_key) ==
    LET ents == SlabTryRemove(self.entities, entity_key) IN
    IF SlabGet(self.entities, entity_key) = None
    THEN Ret([self EXCEPT !.entities = ents], None, FALSE)
    ELSE
        IF entity_key \in DOMAIN self.relation_0
        THEN
            LET acc == Cascade([comp_metas |-> self.comp_metas,
                                relation_1 |-> self.relation_1,
                                panic |-> FALSE],
                               entity_key,
                               DirEntries(self.relation_0[entity_key]))
            IN Ret([entities |-> ents,
                    comp_metas |-> acc.comp_metas,
                    relation_0 |-> MapRemove(self.relation_0, entity_key),
                    relation_1 |-> acc.relation_1],
                   IF acc.panic THEN None ELSE Some("unit"), acc.panic)
        ELSE Ret([self EXCEPT !.entities = ents], Some("unit"), FALSE)

\* ECS::get_entity
get_entity(self, entity_key) ==
    IF SlabContains(self.entities, entity_key) THEN Some("unit") ELSE None

\* An iteration of the entity slab that does not skip its vacant entries.
iter_entity_all_slots(self) ==
    [i \in 1 .. Len(self.entities.entries) |-> i - 1]

\* ECS::iter_entity: the live entity keys in slab order.
iter_entity(self) == SlabKeys(self.entities)

\* ----------------------------------------------------------- components
\* A record whose two back-references are stored in each other's field.
NewCompMetaSwapped(comp, entity_key, rel_0, rel_1) ==
    [inner |-> comp, entity_key |-> entity_key,
     relation_0 |-> rel_1, relation_1 |-> rel_0]

\* The CompMeta record insert_comp builds: the value, its owner and its
\* positions in the owner's slabs of relation_0 and relation_1.
NewCompMeta(comp, entity_key, rel_0, rel_1) ==
    [inner |-> comp, entity_key |-> entity_key,
     relation_0 |-> rel_0, relation_1 |-> rel_1]

\* ECS::insert_comp past its entity check: allocate the record in the
\* kind's store and link it into relation_0 and relation_1.
InsertCompLinked(self, entity_key, comp) ==
    LET kind_key == KindOf(comp)
        metas == OrDefault(self.comp_metas, kind_key)
        slab_key == SlabVacantKey(metas)
        dir == OrDefault(self.relation_0, entity_key)
        rel_0 == SlabVacantKey(dir)
        rkey == << entity_key, kind_key >>
        sec == OrDefault(self.relation_1, rkey)
        rel_1 == SlabVacantKey(sec)
        comp_meta == NewCompMeta(comp, entity_key, rel_0, rel_1)
    IN Ret([entities |-> self.entities,
            comp_metas |-> MapPut(self.comp_metas, kind_key,
                                  SlabInsert(metas, comp_meta)),
            relation_0 |-> MapPut(self.relation_0, entity_key,
                                  SlabInsert(dir, << kind_key, slab_key >>)),
            relation_1 |-> MapPut(self.relation_1, rkey,
                                  SlabInsert(sec, slab_key))],
           Some(<< kind_key, slab_key >>), FALSE)

\* An insert_comp that does not look whether the entity is live.
insert_comp_unchecked(self, entity_key, comp) ==
    InsertCompLinked(self, entity_key, comp)

\* ECS::insert_comp
insert_comp(self, entity_key, comp) ==
    IF SlabGet(self.entities, entity_key) = None
    THEN Ret(self, None, FALSE)
    ELSE InsertCompLinked(self, entity_key, comp)

\* A remove_comp that removes the record and its entry of relation_1 and
\* leaves the entry of the owner's directory.
remove_comp_keeps_directory(self, comp_key) ==
    LET comp_meta == IF comp_key[1] \in DOMAIN self.comp_metas
                     THEN SlabGet(self.comp_metas[comp_key[1]], comp_key[2])
                     ELSE None
    IN
    IF comp_meta = None THEN Ret(self, None, FALSE)
    ELSE Ret([self EXCEPT
                !.comp_metas[comp_key[1]] = SlabTryRemove(@, comp_key[2]),
                !.relation_1[<< Check(comp_meta).entity_key, comp_key[1] >>] =
                    SlabTryRemove(@, Check(comp_meta).relation_1)],
             Some(Check(comp_meta).inner), FALSE)

\* ECS::remove_comp
remove_comp(self, comp_key) ==
    LET kind_key == comp_key[1]
        slab_key == comp_key[2]
    IN
    IF kind_key \notin DOMAIN self.comp_metas
    THEN Ret(self, None, FALSE)
    ELSE IF SlabGet(self.comp_metas[kind_key], slab_key) = None
    THEN Ret([self EXCEPT !.comp_metas[kind_key] = SlabTryRemove(@, slab_key)],
             None, FALSE)
    ELSE
        LET comp_meta == Check(SlabGet(self.comp_metas[kind_key], slab_key))
            s1 == [self EXCEPT !.comp_metas[kind_key] = SlabTryRemove(@, slab_key)]
            owner == comp_meta.entity_key
            rkey == << owner, kind_key >>
        IN
        IF owner \notin DOMAIN self.relation_0
           \/ ~SlabContains(self.relation_0[owner], comp_meta.relation_0)
        THEN Ret(s1, None, TRUE)
        ELSE
            LET s2 == [s1 EXCEPT !.relation_0[owner] =
                                    SlabTryRemove(@, comp_meta.relation_0)]
            IN
            IF rkey \notin DOMAIN self.relation_1
               \/ ~SlabContains(self.relation_1[rkey], comp_meta.relation_1)
            THEN Ret(s2, None, TRUE)
            ELSE Ret([s2 EXCEPT !.relation_1[rkey] =
                                    SlabTryRemove(@, comp_meta.relation_1)],
                     Some(comp_meta.inner), FALSE)

\* The component record a key resolves to, as an Option: the two lookups
\* shared by get_comp, get_comp_mut and get_entity_by_comp.
LookupMeta(self, comp_key) ==
    IF comp_key[1] \in DOMAIN self.comp_metas
    THEN SlabGet(self.comp_metas[comp_key[1]], comp_key[2])
    ELSE None

\* ECS::get_comp
get_comp(self, comp_key) ==
    LET comp_meta == LookupMeta(self, comp_key) IN
    IF comp_meta = None THEN None ELSE Some(Check(comp_meta).inner)

\* ECS::get_comp_mut: the value behind the mutable reference it returns.
get_comp_mut(self, comp_key) ==
    LET comp_metas_k == IF comp_key[1] \in DOMAIN self.comp_metas
                        THEN Some(self.comp_metas[comp_key[1]]) ELSE None
    IN
    IF comp_metas_k = None THEN None
    ELSE IF SlabGet(Check(comp_metas_k), comp_key[2]) = None THEN None
    ELSE Some(Check(SlabGet(Check(comp_metas_k), comp_key[2])).inner)

\* A get_entity_by_comp that reads the wrong back-reference of the record.
get_entity_by_comp_wrong_field(self, comp_key) ==
    LET comp_meta == LookupMeta(self, comp_key) IN
    IF comp_meta = None THEN None ELSE Some(Check(comp_meta).relation_0)

\* ECS::get_entity_by_comp
get_entity_by_comp(self, comp_key) ==
    LET comp_meta == LookupMeta(self, comp_key) IN
    IF comp_meta = None THEN None ELSE Some(Check(comp_meta).entity_key)

\* ------------------------------------------------------------- iterators
\* An iteration that reports a store without components as a missing store.
iter_comp_slots_none_if_empty(self, kind_key) ==
    IF kind_key \in DOMAIN self.comp_metas
       /\ SlabKeys(self.comp_metas[kind_key]) # << >>
    THEN Some(SlabKeys(self.comp_metas[kind_key]))
    ELSE None

\* An iteration of a kind's store that misses its first occupied slot.
iter_comp_slots_skip_first(self, kind_key) ==
    IF kind_key \in DOMAIN self.comp_metas
    THEN Some(IF SlabKeys(self.comp_metas[kind_key]) = << >> THEN << >>
              ELSE Tail(SlabKeys(self.comp_metas[kind_key])))
    ELSE None

\* The slots behind the references ECS::iter_comp yields, in yield order
\* (comps.iter() walks the slab in key order), as an Option.
iter_comp_slots(self, kind_key) ==
    IF kind_key \in DOMAIN self.comp_metas
    THEN Some(SlabKeys(self.comp_metas[kind_key]))
    ELSE None

\* ECS::iter_comp: the values it yields, as an Option of a sequence.
iter_comp(self, kind_key) ==
    LET slots == iter_comp_slots(self, kind_key) IN
    IF slots = None THEN None
    ELSE Some([i \in 1 .. Len(Check(slots)) |->
                 Check(SlabGet(self.comp_metas[kind_key], Check(slots)[i])).inner])

\* ECS::iter_comp_mut: the values behind the mutable references it yields.
iter_comp_mut(self, kind_key) ==
    IF kind_key \notin DOMAIN self.comp_metas THEN None
    ELSE LET comps == self.comp_metas[kind_key] IN
         Some([i \in 1 .. Len(SlabKeys(comps)) |->
                   Check(SlabGet(comps, SlabKeys(comps)[i])).inner])

\* A scoped iteration that ignores the entity: every slot of the kind's store.
iter_comp_by_entity_slots_any_owner(self, entity_key, kind_key) ==
    IF kind_key \notin DOMAIN self.comp_metas THEN None
    ELSE IF << entity_key, kind_key >> \notin DOMAIN self.relation_1 THEN None
    ELSE Some(SlabKeys(self.comp_metas[kind_key]))

\* A scoped iteration that scans the kind's store in slot order and keeps
\* the records of the entity, instead of walking relation_1.
iter_comp_by_entity_slots_store_scan(self, entity_key, kind_key) ==
    IF kind_key \notin DOMAIN self.comp_metas THEN None
    ELSE IF << entity_key, kind_key >> \notin DOMAIN self.relation_1 THEN None
    ELSE Some(SelectSeq(SlabKeys(self.comp_metas[kind_key]),
                        LAMBDA slot : Check(SlabGet(self.comp_metas[kind_key],
                                                    slot)).entity_key = entity_key))

\* The slots ECS::iter_comp_by_entity resolves, in yield order: the values
\* of the (entity, kind) slab of relation_1 in its key order, as an Option.
iter_comp_by_entity_slots(self, entity_key, kind_key) ==
    IF kind_key \notin DOMAIN self.comp_metas THEN None
    ELSE IF << entity_key, kind_key >> \notin DOMAIN self.relation_1 THEN None
    ELSE LET sec == self.relation_1[<< entity_key, kind_key >>]
             keys == SlabKeys(sec)
         IN Some([i \in 1 .. Len(keys) |-> Check(SlabGet(sec, keys[i]))])

\* Whether consuming ECS::iter_comp_by_entity (or its _mut twin) panics:
\* some slot of relation_1 is not occupied in the kind's store.
iter_by_entity_panics(self, entity_key, kind_key) ==
    LET slots == iter_comp_by_entity_slots(self, entity_key, kind_key) IN
    /\ slots # None
    /\ \E i \in 1 .. Len(Check(slots)) :
           ~SlabContains(self.comp_metas[kind_key], Check(slots)[i])

\* ECS::iter_comp_by_entity: the values it yields (defined when consuming
\* it does not panic).
iter_comp_by_entity(self, entity_key, kind_key) ==
    LET slots == iter_comp_by_entity_slots(self, entity_key, kind_key) IN
    IF slots = None THEN None
    ELSE Some([i \in 1 .. Len(Check(slots)) |->
                 Check(SlabGet(self.comp_metas[kind_key], Check(slots)[i])).inner])

\* ECS::iter_comp_mut_by_entity: the values behind the mutable references
\* it yields (defined when consuming it does not panic).
iter_comp_mut_by_entity(self, entity_key, kind_key) ==
    IF kind_key \notin DOMAIN self.comp_metas THEN None
    ELSE IF << entity_key, kind_key >> \notin DOMAIN self.relation_1 THEN None
    ELSE LET comps == self.comp_metas[kind_key]
             sec == self.relation_1[<< entity_key, kind_key >>]
             keys == SlabKeys(sec)
         IN Some([i \in 1 .. Len(keys) |->
                   Check(SlabGet(comps, Check(SlabGet(sec, keys[i])))).inner])

\* A write that lands in a copy of the record: the store keeps the old value.
write_inner_lost(self, kind_key, slab_key, comp) == self

\* A write `*r = comp` through a mutable reference r to the inner value of
\* the record at a slot of a kind's store.
write_inner(self, kind_key, slab_key, comp) ==
    [self EXCEPT !.comp_metas[kind_key].entries[slab_key + 1].val =
                     Some([Check(@) EXCEPT !.inner = comp])]

\* A clear that forgets the secondary index.
clear_keeps_relation_1(self) ==
    Ret([entities |-> SlabNew, comp_metas |-> EmptyMap,
         relation_0 |-> EmptyMap, relation_1 |-> self.relation_1], None, FALSE)

\* ECS::clear
clear(self) ==
    Ret([entities |-> SlabNew, comp_metas |-> EmptyMap,
         relation_0 |-> EmptyMap, relation_1 |-> EmptyMap], None, FALSE)

\* ---------------------------------------------------------------- history
\* The entry of `issued` for a component just inserted.
Issue(comp_key, entity_key, comp) ==
    [key |-> comp_key, entity |-> entity_key, comp |-> comp]

\* `issued` without the entries of one component key.
DropKey(log, comp_key) == SelectSeq(log, LAMBDA r : r.key # comp_key)

\* `issued` without the entries of one entity.
DropEntity(log, entity_key) == SelectSeq(log, LAMBDA r : r.entity # entity_key)

\* `issued` after the caller wrote comp through a mutable reference to the
\* component of a key.
MarkWritten(log, comp_key, comp) ==
    [i \in 1 .. Len(log) |->
        IF log[i].key = comp_key THEN [log[i] EXCEPT !.comp = comp] ELSE log[i]]

\* --------------------------------------------------------------- actions
\* The effect of a call on the variables.
Apply(r, call, log) ==
    /\ ~panicked
    /\ calls < MaxCalls
    /\ calls' = calls + 1
    /\ entities' = r.self.entities
    /\ comp_metas' = r.self.comp_metas
    /\ relation_0' = r.self.relation_0
    /\ relation_1' = r.self.relation_1
    /\ panicked' = r.panic
    /\ last' = call
    /\ issued' = log

InsertEntity ==
    /\ SlabLen(entities) < MaxEntities
    /\ LET r == insert_entity(Store) IN
       Apply(r, Call("insert_entity", NoEntity, NoKey, NoComp, Some(r.ret)), issued)

RemoveEntity(entity_key) ==
    /\ LET r == remove_entity(Store, entity_key) IN
       Apply(r, Call("remove_entity", entity_key, NoKey, NoComp, r.ret),
             IF r.ret = None THEN issued ELSE DropEntity(issued, entity_key))

InsertComp(entity_key, comp) ==
    /\ \/ get_entity(Store, entity_key) = None
       \/ Len(issued) < MaxComps
    /\ LET r == insert_comp(Store, entity_key, comp) IN
       Apply(r, Call("insert_comp", entity_key, NoKey, Some(comp), r.ret),
             IF r.ret = None THEN issued
             ELSE Append(DropKey(issued, Check(r.ret)),
                         Issue(Check(r.ret), entity_key, comp)))

RemoveComp(comp_key) ==
    /\ LET r == remove_comp(Store, comp_key) IN
       Apply(r, Call("remove_comp", NoEntity, comp_key, NoComp, r.ret),
             IF r.ret = None THEN issued ELSE DropKey(issued, comp_key))

\* get_comp_mut(comp_key) returning Some(r) and the caller's write
\* *r = comp.
GetCompMutWrite(comp_key, comp) ==
    /\ LET ref == get_comp_mut(Store, comp_key) IN
       /\ ref # None
       /\ Apply(Ret(write_inner(Store, comp_key[1], comp_key[2], comp), ref, FALSE),
                Call("get_comp_mut", NoEntity, comp_key, Some(comp), ref),
                MarkWritten(issued, comp_key, comp))

\* iter_comp_mut(kind_key) returning Some and the caller's write *r = comp
\* through the i-th reference it yields.
IterCompMutWrite(kind_key, i, comp) ==
    /\ LET it == iter_comp_mut(Store, kind_key)
           slots == iter_comp_slots(Store, kind_key)
       IN
       /\ it # None
       /\ i <= Len(Check(it))
       /\ Apply(Ret(write_inner(Store, kind_key, Check(slots)[i], comp), None, FALSE),
                Call("iter_comp_mut", NoEntity, << kind_key, Check(slots)[i] >>,
                     Some(comp), Some(Check(it)[i])),
                MarkWritten(issued, << kind_key, Check(slots)[i] >>, comp))

\* iter_comp_mut_by_entity(entity_key, kind_key) returning Some, consumed to
\* its end, and the caller's write *r = comp through the i-th reference it
\* yields; the call panics when a slot of relation_1 is not in the store.
IterCompMutByEntityWrite(entity_key, kind_key, i, comp) ==
    /\ LET slots == iter_comp_by_entity_slots(Store, entity_key, kind_key) IN
       /\ slots # None
       /\ i <= Len(Check(slots))
       /\ IF iter_by_entity_panics(Store, entity_key, kind_key)
          THEN Apply(Ret(Store, None, TRUE),
                     Call("iter_comp_mut_by_entity", entity_key, << kind_key >>,
                          NoComp, None), issued)
          ELSE Apply(Ret(write_inner(Store, kind_key, Check(slots)[i], comp),
                         None, FALSE),
                     Call("iter_comp_mut_by_entity", entity_key,
                          << kind_key, Check(slots)[i] >>, Some(comp),
                          Some(Check(iter_comp_mut_by_entity(Store, entity_key,
                                                             kind_key))[i])),
                     MarkWritten(issued, << kind_key, Check(slots)[i] >>, comp))

Clear ==
    /\ Apply(clear(Store), Call("clear", NoEntity, NoKey, NoComp, None), << >>)

Next ==
    \/ InsertEntity
    \/ \E entity_key \in EntityKeys : RemoveEntity(entity_key)
    \/ \E entity_key \in EntityKeys, comp \in Comps : InsertComp(entity_key, comp)
    \/ \E comp_key \in CompKeys : RemoveComp(comp_key)
    \/ \E comp_key \in CompKeys, comp \in Comps : GetCompMutWrite(comp_key, comp)
    \/ \E kind_key \in Kinds, i \in 1 .. MaxComps, comp \in Comps :
           IterCompMutWrite(kind_key, i, comp)
    \/ \E entity_key \in EntityKeys, kind_key \in Kinds, i \in 1 .. MaxComps,
          comp \in Comps :
           IterCompMutByEntityWrite(entity_key, kind_key, i, comp)
    \/ Clear

Spec == Init /\ [][Next]_vars

\* ------------------------------------------------- the public queries
\* The queries of the API on the current store.
GetEntity(entity_key) == get_entity(Store, entity_key)
GetComp(comp_key) == get_comp(Store, comp_key)
GetCompMut(comp_key) == get_comp_mut(Store, comp_key)
GetEntityByComp(comp_key) == get_entity_by_comp(Store, comp_key)
RemoveCompResult(comp_key) == remove_comp(Store, comp_key).ret
IterCompSlots(kind_key) == iter_comp_slots(Store, kind_key)

\* The elements of a sequence.
Range(seq) == {seq[i] : i \in 1 .. Len(seq)}

\* The component keys the caller inserted for an entity and has not removed.
OwnedKeys(entity_key) ==
    {issued[i].key : i \in {j \in 1 .. Len(issued) : issued[j].entity = entity_key}}

\* ------------------------------------------------------------------ C1
\* C1: cascade.  A remove_entity(e) that returns Some leaves e not live, and
\* for every component key k that e owned (any number, any kinds) get_comp,
\* get_comp_mut, get_entity_by_comp and remove_comp on k give None and the
\* slot of k is no longer among those iter_comp of its kind yields.
C1_Cascade ==
    [][ \A e \in EntityKeys :
          (last'.op = "remove_entity" /\ last'.e = e /\ last'.res # None) =>
          /\ GetEntity(e)' = None
          /\ \A k \in OwnedKeys(e) :
                /\ GetComp(k)' = None
                /\ GetCompMut(k)' = None
                /\ GetEntityByComp(k)' = None
                /\ RemoveCompResult(k)' = None
                /\ IterCompSlots(k[1])' # None
                /\ k[2] \notin Range(Check(IterCompSlots(k[1])'))
      ]_vars

\* C1 witness: an entity was given one component of each kind and then
\* removed.
C1_Witness ==
    /\ last.op = "remove_entity" /\ last.res # None /\ calls = 4
    /\ << last.e, "I32" >> \in DOMAIN relation_1
    /\ << last.e, "Unit" >> \in DOMAIN relation_1
    /\ issued = << >>

\* ------------------------------------------------------------------ C2
\* C2: round trip.  insert_comp(e, v) on a live entity returns Some(k) with
\* k = (kind of v, slot), and get_comp(k) and get_comp_mut(k) then give v;
\* every component the caller inserted and has not removed keeps resolving
\* to the value the caller gave it (`issued` holds the inserted value until
\* the caller writes another through a mutable accessor); and remove_comp(k)
\* returns exactly that value.
C2_RoundTrip ==
    /\ [](\A i \in 1 .. Len(issued) : GetComp(issued[i].key) = Some(issued[i].comp))
    /\ [][ \A e \in EntityKeys, c \in Comps :
             (last'.op = "insert_comp" /\ last'.e = e /\ last'.c = Some(c)
              /\ GetEntity(e) # None) =>
             \E k \in CompKeys :
                /\ last'.res = Some(k)
                /\ k[1] = KindOf(c)
                /\ GetComp(k)' = Some(c)
                /\ GetCompMut(k)' = Some(c)
         ]_vars
    /\ [][ \A i \in 1 .. Len(issued) :
             (last'.op = "remove_comp" /\ last'.k = issued[i].key) =>
             last'.res = Some(issued[i].comp)
         ]_vars

\* C2 witness: an insert_comp into a slot freed by an earlier removal, whose
\* key resolves to the inserted value.
C2_Witness ==
    /\ last.op = "insert_comp" /\ last.res # None
    /\ GetComp(Check(last.res)) = last.c
    /\ Check(last.res)[2] + 1 < Len(comp_metas[Check(last.res)[1]].entries)
    /\ Len(issued) >= 2

\* ------------------------------------------------------------------ C3
\* C3: reverse lookup.  For every live component key k, get_entity_by_comp(k)
\* gives the entity key passed to the insert_comp that created k, and that
\* entity is live; after a successful remove_comp(k) it gives None.
C3_ReverseLookup ==
    /\ [](\A k \in CompKeys :
            GetComp(k) # None =>
            \E i \in 1 .. Len(issued) :
               /\ issued[i].key = k
               /\ GetEntityByComp(k) = Some(issued[i].entity)
               /\ GetEntity(issued[i].entity) # None)
    /\ [][ \A k \in CompKeys :
             (last'.op = "remove_comp" /\ last'.k = k /\ last'.res # None) =>
             GetEntityByComp(k)' = None
         ]_vars

\* C3 witness: components of two entities are live and one was just removed.
C3_Witness ==
    /\ last.op = "remove_comp" /\ last.res # None
    /\ \E i, j \in 1 .. Len(issued) : issued[i].entity # issued[j].entity

\* ------------------------------------------------------------------ C4
\* C4: idempotent failure.  A remove_entity(e) right after a remove_entity(e)
\* returns None, and so does a remove_comp(k) right after a remove_comp(k);
\* with other calls in between: after any remove_entity(e) the key e is not
\* live, no call other than an insertion makes a non-live key live, and a
\* remove_entity on a non-live key returns None (the same for remove_comp);
\* every remove_entity or remove_comp that returns None leaves the entities,
\* the component stores and both association indices unchanged.
C4_IdempotentFailure ==
    [][ /\ \A e \in EntityKeys :
             /\ (last.op = "remove_entity" /\ last.e = e
                 /\ last'.op = "remove_entity" /\ last'.e = e) => last'.res = None
             /\ (last'.op = "remove_entity" /\ last'.e = e /\ ~panicked') =>
                    GetEntity(e)' = None
             /\ (GetEntity(e) = None
                 /\ last'.op \notin {"insert_entity", "insert_comp"}) =>
                    GetEntity(e)' = None
             /\ (last'.op = "remove_entity" /\ last'.e = e /\ GetEntity(e) = None) =>
                    last'.res = None
        /\ \A k \in CompKeys :
             /\ (last.op = "remove_comp" /\ last.k = k
                 /\ last'.op = "remove_comp" /\ last'.k = k) => last'.res = None
             /\ (last'.op = "remove_comp" /\ last'.k = k /\ ~panicked') =>
                    GetComp(k)' = None
             /\ (GetComp(k) = None
                 /\ last'.op \notin {"insert_entity", "insert_comp"}) =>
                    GetComp(k)' = None
             /\ (last'.op = "remove_comp" /\ last'.k = k /\ GetComp(k) = None) =>
                    last'.res = None
        /\ (last'.op \in {"remove_entity", "remove_comp"} /\ last'.res = None) =>
              (Store' = Store /\ ~panicked')
      ]_vars

\* C4 witness: insert_entity, remove_entity(0) and remove_entity(0) again,
\* which returned None.
C4_Witness ==
    /\ last.op = "remove_entity" /\ last.res = None /\ calls = 3
    /\ last.e < Len(entities.entries)

\* ------------------------------------------------------------------ C5
\* C5: insert_comp(e, v) with a key e that is not live returns None and
\* leaves the whole store unchanged: no component stored, no store created
\* for the kind of v (iter_comp gives the same for every kind), no entry
\* added to either association index.
C5_InsertCompDeadEntity ==
    [][ \A e \in EntityKeys :
          (last'.op = "insert_comp" /\ last'.e = e /\ GetEntity(e) = None) =>
          /\ last'.res = None
          /\ ~panicked'
          /\ Store' = Store
          /\ \A kind \in Kinds : iter_comp(Store, kind)' = iter_comp(Store, kind)
      ]_vars

\* C5 witness: an insert_comp on a removed entity key returned None and the
\* kind of its value has no store.
C5_Witness ==
    /\ last.op = "insert_comp" /\ last.res = None
    /\ last.e < Len(entities.entries)
    /\ GetEntity(last.e) = None
    /\ KindOf(Check(last.c)) \notin DOMAIN comp_metas

\* ------------------------------------------------------------ C6 .. C9
\* The entries of `issued` of one kind, oldest first.
IssuedOfKind(kind_key) == SelectSeq(issued, LAMBDA r : r.key[1] = kind_key)

\* The entries of `issued` of one entity and one kind, oldest first.
IssuedOf(entity_key, kind_key) ==
    SelectSeq(issued, LAMBDA r : r.key[1] = kind_key /\ r.entity = entity_key)

\* The slot parts of the keys of a sequence of `issued` entries.
SlotsOf(log) == [i \in 1 .. Len(log) |-> log[i].key[2]]

\* A sequence without repetition.
Injective(seq) == \A i, j \in 1 .. Len(seq) : i # j => seq[i] # seq[j]

IterCompByEntitySlots(entity_key, kind_key) ==
    iter_comp_by_entity_slots(Store, entity_key, kind_key)

\* C6: scoped iteration content.  For every live entity e and kind k for
\* which iter_comp_by_entity(e, k) is Some, it yields each live component of
\* kind k that e owns exactly once, with its value, and nothing else (no
\* component of another entity, none of another kind); the _mut twin yields
\* the same.
C6_ScopedContent ==
    \A e \in EntityKeys, kind \in Kinds :
       (GetEntity(e) # None /\ IterCompByEntitySlots(e, kind) # None) =>
       LET slots == Check(IterCompByEntitySlots(e, kind)) IN
       /\ ~iter_by_entity_panics(Store, e, kind)
       /\ Injective(slots)
       /\ Range(slots) = Range(SlotsOf(IssuedOf(e, kind)))
       /\ iter_comp_by_entity(Store, e, kind) =
             Some([i \in 1 .. Len(slots) |-> Check(GetComp(<< kind, slots[i] >>))])
       /\ iter_comp_mut_by_entity(Store, e, kind) =
             iter_comp_by_entity(Store, e, kind)

\* C6 witness: an entity with an I32 and a Unit component next to another
\* entity with an I32 component; its I32 iteration yields its one value.
C6_Witness ==
    \E e0, e1 \in EntityKeys :
       /\ e0 # e1
       /\ Len(IssuedOf(e0, "I32")) = 1 /\ Len(IssuedOf(e0, "Unit")) = 1
       /\ Len(IssuedOf(e1, "I32")) = 1
       /\ iter_comp_by_entity(Store, e0, "I32") = Some(<< IssuedOf(e0, "I32")[1].comp >>)

\* C7: global iteration content.  For every kind k for which iter_comp(k) is
\* Some, it yields each live component stored under k exactly once, across
\* all entities, with its value, and no component removed by remove_comp or
\* by the cascade of remove_entity; iter_comp_mut(k) yields the same.
C7_GlobalContent ==
    \A kind \in Kinds :
       IterCompSlots(kind) # None =>
       LET slots == Check(IterCompSlots(kind)) IN
       /\ Injective(slots)
       /\ Range(slots) = Range(SlotsOf(IssuedOfKind(kind)))
       /\ iter_comp(Store, kind) =
             Some([i \in 1 .. Len(slots) |-> Check(GetComp(<< kind, slots[i] >>))])
       /\ iter_comp_mut(Store, kind) = iter_comp(Store, kind)

\* C7 witness: after a cascade that removed a component of a kind, the kind's
\* iteration still yields the component of another entity.
C7_Witness ==
    /\ last.op = "remove_entity" /\ last.res # None
    /\ \E kind \in Kinds :
          /\ << last.e, kind >> \in DOMAIN relation_1
          /\ relation_1[<< last.e, kind >>].entries # << >>
          /\ IterCompSlots(kind) # None
          /\ Len(Check(IterCompSlots(kind))) >= 1

\* C8 as claimed: iter_comp(k) yields the live components of kind k in the
\* order in which they were inserted, also after removals and insertions.
C8_InsertionOrder ==
    \A kind \in Kinds :
       IterCompSlots(kind) # None =>
       Check(IterCompSlots(kind)) = SlotsOf(IssuedOfKind(kind))

\* C8: global iteration order, amended.  iter_comp(k) yields the live
\* components of kind k in ascending order of the slot number of their key
\* (an insertion into a slot freed by a removal comes before older
\* components of higher slots).
C8_SlotOrder ==
    \A kind \in Kinds :
       IterCompSlots(kind) # None =>
       LET slots == Check(IterCompSlots(kind)) IN
       /\ \A i, j \in 1 .. Len(slots) : i < j => slots[i] < slots[j]
       /\ Len(slots) = Len(IssuedOfKind(kind))
       /\ \A i \in 1 .. Len(slots) :
             Check(iter_comp(Store, kind))[i] = Check(GetComp(<< kind, slots[i] >>))

\* C8 witness: a kind whose components are yielded in an order that is not
\* the order of their insertion.
C8_Witness ==
    \E kind \in Kinds :
       /\ IterCompSlots(kind) # None
       /\ Len(Check(IterCompSlots(kind))) >= 2
       /\ Check(IterCompSlots(kind)) # SlotsOf(IssuedOfKind(kind))

\* C9 as claimed: iter_comp_by_entity(e, k) yields e's live components of
\* kind k in the order in which they were inserted into e.
C9_ScopedInsertionOrder ==
    \A e \in EntityKeys, kind \in Kinds :
       (GetEntity(e) # None /\ IterCompByEntitySlots(e, kind) # None) =>
       Check(IterCompByEntitySlots(e, kind)) = SlotsOf(IssuedOf(e, kind))

\* The position in relation_1 that the record of a slot refers back to.
Relation1Of(kind_key, slab_key) ==
    Check(SlabGet(comp_metas[kind_key], slab_key)).relation_1

\* C9: scoped iteration order, amended.  iter_comp_by_entity(e, k) yields
\* e's live components of kind k in ascending order of their position in the
\* (e, k) slab of relation_1 (an insertion takes the position most recently
\* freed there, by remove_comp or by a remove_entity of the key e, before it
\* takes a new one).
C9_ScopedIndexOrder ==
    \A e \in EntityKeys, kind \in Kinds :
       (GetEntity(e) # None /\ IterCompByEntitySlots(e, kind) # None) =>
       LET slots == Check(IterCompByEntitySlots(e, kind)) IN
       /\ Len(slots) = Len(IssuedOf(e, kind))
       /\ \A i \in 1 .. Len(slots) : SlabContains(comp_metas[kind], slots[i])
       /\ \A i, j \in 1 .. Len(slots) :
             i < j => Relation1Of(kind, slots[i]) < Relation1Of(kind, slots[j])

\* C9 witness: an entity whose components of a kind are yielded in an order
\* that is not the order of their insertion.
C9_Witness ==
    \E e \in EntityKeys, kind \in Kinds :
       /\ GetEntity(e) # None
       /\ IterCompByEntitySlots(e, kind) # None
       /\ Len(Check(IterCompByEntitySlots(e, kind))) >= 2
       /\ Check(IterCompByEntitySlots(e, kind)) # SlotsOf(IssuedOf(e, kind))

\* ----------------------------------------------------------------- C10
\* The calls that write through a mutable accessor.
WriteOps == {"get_comp_mut", "iter_comp_mut", "iter_comp_mut_by_entity"}

\* get_comp and get_entity_by_comp give the same for a key after the step.
SameComp(k) ==
    /\ GetComp(k)' = GetComp(k)
    /\ GetEntityByComp(k)' = GetEntityByComp(k)

\* C10: no collateral invalidation.  insert_entity leaves get_entity of every
\* key but the one it returns unchanged, insert_comp and remove_comp leave
\* get_entity of every key unchanged; insert_entity, insert_comp and
\* remove_comp(k) leave get_comp and get_entity_by_comp of every live key
\* other than k unchanged; remove_entity(e) changes these results only for e
\* and the keys e owned; so a live component keeps its value and owner over
\* every call but remove_comp on its key, remove_entity on its owner, clear
\* and a write through a mutable accessor to it.
C10_NoCollateralInvalidation ==
    [][ /\ \A e \in EntityKeys :
             \/ last'.op = "clear"
             \/ last'.op = "insert_entity" /\ last'.res = Some(e)
             \/ last'.op = "remove_entity" /\ last'.e = e
             \/ GetEntity(e)' = GetEntity(e)
        /\ \A k \in CompKeys :
             /\ (last'.op = "remove_entity"
                 /\ \A e \in EntityKeys : last'.e = e => k \notin OwnedKeys(e)) =>
                    SameComp(k)
             /\ (GetComp(k) # None
                 /\ last'.op \in {"insert_entity", "insert_comp", "remove_comp"}
                 /\ last'.k # k) => SameComp(k)
             /\ (GetComp(k) # None
                 /\ last'.op \in WriteOps /\ last'.k # k) => SameComp(k)
      ]_vars

\* C10 witness: a cascade vacated a slot of a kind's store in which the
\* component of another entity is still live.
C10_Witness ==
    /\ last.op = "remove_entity" /\ last.res # None
    /\ \E i \in 1 .. Len(issued) :
          /\ << last.e, issued[i].key[1] >> \in DOMAIN relation_1
          /\ relation_1[<< last.e, issued[i].key[1] >>].entries # << >>
          /\ GetComp(issued[i].key) = Some(issued[i].comp)

\* ----------------------------------------------------------------- C11
\* C11: kind safety.  Every value get_comp((k, s)) returns and every value
\* iter_comp(k) or iter_comp_by_entity(e, k) yields has kind k, also after
\* writes through get_comp_mut, iter_comp_mut and iter_comp_mut_by_entity.
C11_KindSafety ==
    /\ \A k \in CompKeys :
          GetComp(k) # None => KindOf(Check(GetComp(k))) = k[1]
    /\ \A kind \in Kinds :
          iter_comp(Store, kind) # None =>
          \A i \in 1 .. Len(Check(iter_comp(Store, kind))) :
             KindOf(Check(iter_comp(Store, kind))[i]) = kind
    /\ \A e \in EntityKeys, kind \in Kinds :
          (IterCompByEntitySlots(e, kind) # None
           /\ ~iter_by_entity_panics(Store, e, kind)) =>
          \A i \in 1 .. Len(Check(iter_comp_by_entity(Store, e, kind))) :
             KindOf(Check(iter_comp_by_entity(Store, e, kind))[i]) = kind

\* ----------------------------------------------------------------- C12
\* C12: no crash.  After any sequence of public calls with arbitrary key
\* arguments (stale, reused, never issued), no call has met None in an
\* integrity check, and consuming iter_comp_by_entity or its _mut twin for
\* any entity key and kind would not meet one either.
C12_NoCrash ==
    /\ ~panicked
    /\ \A e \in EntityKeys, kind \in Kinds : ~iter_by_entity_panics(Store, e, kind)

\* C12 witness: a remove_comp with the stale key of a removed component,
\* whose slot number is still inside the kind's store, returned None.
C12_Witness ==
    /\ last.op = "remove_comp" /\ last.res = None /\ ~panicked
    /\ last.k[1] \in DOMAIN comp_metas
    /\ last.k[2] < Len(comp_metas[last.k[1]].entries)
    /\ issued # << >>

\* ----------------------------------------------------------------- C13
\* C13: mutation visibility and frame.  A value written through
\* iter_comp_mut_by_entity(e, k), get_comp_mut or iter_comp_mut is what
\* get_comp on the written component's key then returns; the reference
\* showed the value the key held before, and the one of
\* iter_comp_mut_by_entity(e, k) belongs to a component of kind k of e; the
\* write changes no other component's value, no component's owner and no
\* key's liveness.
C13_MutationVisibility ==
    [][ \A k \in CompKeys, v \in Comps :
          (last'.op \in WriteOps /\ last'.k = k /\ last'.c = Some(v)) =>
          /\ GetComp(k)' = Some(v)
          /\ last'.res = GetComp(k)
          /\ \A e \in EntityKeys :
                (last'.op = "iter_comp_mut_by_entity" /\ last'.e = e) =>
                k \in OwnedKeys(e)
          /\ \A k2 \in CompKeys :
                /\ k2 # k => GetComp(k2)' = GetComp(k2)
                /\ GetEntityByComp(k2)' = GetEntityByComp(k2)
                /\ (GetComp(k2)' = None) <=> (GetComp(k2) = None)
          /\ \A e \in EntityKeys : GetEntity(e)' = GetEntity(e)
      ]_vars

\* C13 witness: a write through iter_comp_mut_by_entity replaced the value
\* of one of several live components by a different one, and get_comp on its
\* key returns the new value.
C13_Witness ==
    /\ last.op = "iter_comp_mut_by_entity" /\ last.c # NoComp
    /\ last.c # last.res
    /\ GetComp(last.k) = last.c
    /\ Len(issued) >= 2

\* ----------------------------------------------------------------- C14
\* C14: a fresh entity is empty.  insert_entity returns a key e; right after
\* it get_entity(e) is Some, iter_comp_by_entity(e, k) is None or yields
\* nothing for every kind k, no live component has owner e and the directory
\* of e is absent or empty, also when e is the reused key of a removed entity
\* that owned components.
C14_FreshEntityEmpty ==
    [][ last'.op = "insert_entity" =>
        \E e \in EntityKeys :
          /\ last'.res = Some(e)
          /\ GetEntity(e)' # None
          /\ \A kind \in Kinds :
                \/ IterCompByEntitySlots(e, kind)' = None
                \/ IterCompByEntitySlots(e, kind)' = Some(<< >>)
          /\ \A k \in CompKeys : GetEntityByComp(k)' # Some(e)
          /\ e \in DOMAIN relation_0' => SlabKeys(relation_0'[e]) = << >>
      ]_vars

\* C14 witness: insert_entity returned the key of a removed entity that had
\* owned a component (its slab of relation_1 is still there, emptied).
C14_Witness ==
    /\ last.op = "insert_entity"
    /\ \E kind \in Kinds :
          /\ << Check(last.res), kind >> \in DOMAIN relation_1
          /\ relation_1[<< Check(last.res), kind >>].entries # << >>
    /\ issued # << >>

\* ----------------------------------------------------------------- C15
\* C15: iter_comp(k) and iter_comp_mut(k) are None exactly when no
\* insert_comp of a value of kind k has succeeded since the store was created
\* or last cleared: they are None on a new store, a clear makes them None, a
\* successful insert_comp of kind k makes them Some, and no other call
\* changes which of the two they are (so they stay Some, with an empty
\* sequence, when every component of the kind has been removed).
C15_IterCompNoneIffNoStore ==
    /\ \A kind \in Kinds :
          iter_comp(Store, kind) = None /\ iter_comp_mut(Store, kind) = None
    /\ [](\A kind \in Kinds :
            /\ (iter_comp(Store, kind) = None) <=> (kind \notin DOMAIN comp_metas)
            /\ (iter_comp_mut(Store, kind) = None) <=> (iter_comp(Store, kind) = None))
    /\ [][ \A kind \in Kinds :
             (iter_comp(Store, kind)' # None) <=>
                /\ last'.op # "clear"
                /\ \/ iter_comp(Store, kind) # None
                   \/ /\ last'.op = "insert_comp"
                      /\ last'.res # None
                      /\ KindOf(Check(last'.c)) = kind
         ]_vars

\* C15 witness: every component of a kind has been removed and iter_comp of
\* the kind is Some of an empty sequence.
C15_Witness ==
    /\ last.op \in {"remove_comp", "remove_entity"} /\ last.res # None
    /\ \E kind \in Kinds :
          /\ iter_comp(Store, kind) = Some(<< >>)
          /\ iter_comp_mut(Store, kind) = Some(<< >>)

\* ----------------------------------------------------------------- C16
\* C16: iter_comp_by_entity(e, k) and iter_comp_mut_by_entity(e, k) are None
\* whenever e is not a live entity (never inserted, or removed), also after e
\* owned components of kind k and was removed.
C16_DeadEntityIterNone ==
    \A e \in EntityKeys, kind \in Kinds :
       GetEntity(e) = None =>
       /\ iter_comp_by_entity(Store, e, kind) = None
       /\ iter_comp_mut_by_entity(Store, e, kind) = None

\* ----------------------------------------------------------------- C17
\* The store ECS::new() builds.
NewStore == [entities |-> SlabNew, comp_metas |-> EmptyMap,
             relation_0 |-> EmptyMap, relation_1 |-> EmptyMap]

\* C17: clear removes everything.  After clear, from any state, get_entity
\* fails for every entity key, get_comp and get_entity_by_comp fail for every
\* component key, iter_entity yields nothing, iter_comp(k) and
\* iter_comp_by_entity(e, k) are None for every e and k, and the store is the
\* one ECS::new() builds, so that every sequence of calls gives the keys and
\* results it gives on a new store.
C17_ClearIsNew ==
    [][ last'.op = "clear" =>
          /\ \A e \in EntityKeys : GetEntity(e)' = None
          /\ \A k \in CompKeys : GetComp(k)' = None /\ GetEntityByComp(k)' = None
          /\ iter_entity(Store)' = << >>
          /\ \A kind \in Kinds : iter_comp(Store, kind)' = None
          /\ \A e \in EntityKeys, kind \in Kinds :
                iter_comp_by_entity(Store, e, kind)' = None
          /\ Store' = NewStore
          /\ ~panicked'
      ]_vars

\* C17 witness: a clear as the fourth call or later.
C17_Witness ==
    /\ last.op = "clear" /\ calls >= 4
    /\ Store = NewStore

\* ----------------------------------------------------------------- C18
\* C18: iter_entity yields exactly the keys of the live entities, each once:
\* nothing on a new store; the keys get_entity finds; and over every call the
\* keys it yielded before, plus the key an insert_entity returns, minus the
\* key a successful remove_entity removes, and nothing after a clear.
C18_IterEntity ==
    /\ iter_entity(Store) = << >>
    /\ [](/\ Injective(iter_entity(Store))
          /\ Range(iter_entity(Store)) = {e \in EntityKeys : GetEntity(e) # None})
    /\ [][ Range(iter_entity(Store))' =
             IF last'.op = "clear" THEN {}
             ELSE IF last'.op = "insert_entity"
             THEN Range(iter_entity(Store)) \cup {Check(last'.res)}
             ELSE IF last'.op = "remove_entity" /\ last'.res # None
             THEN Range(iter_entity(Store)) \ {last'.e}
             ELSE Range(iter_entity(Store))
         ]_vars

\* C18 witness: entity 0 was removed and iter_entity yields the key 1 only.
C18_Witness ==
    /\ last.op = "remove_entity" /\ last.res # None /\ last.e = 0
    /\ iter_entity(Store) = << 1 >>

\* ----------------------------------------------------------------- C19
\* The occupied slots of a kind's store, as component keys.
LiveKeys == {k \in CompKeys : LookupMeta(Store, k) # None}

\* The record a live component key resolves to.
MetaOf(k) == Check(LookupMeta(Store, k))

\* C19: directory back-reference (I2).  For every live record at slot s of
\* kind k's store, with owner e and directory back-reference d, the slot d of
\* relation_0[e] is occupied and holds exactly (k, s).
C19_DirectoryBackReference ==
    \A k \in LiveKeys :
       /\ MetaOf(k).entity_key \in DOMAIN relation_0
       /\ SlabGet(relation_0[MetaOf(k).entity_key], MetaOf(k).relation_0) = Some(k)

\* C19 witness: a live record whose directory position differs from its
\* position in relation_1, next to another live record.
C19_Witness ==
    /\ Cardinality(LiveKeys) >= 2
    /\ \E k \in LiveKeys : MetaOf(k).relation_0 # MetaOf(k).relation_1

\* ----------------------------------------------------------------- C20
\* C20: disjointness for mutable scoped iteration.  For every (e, k) entry of
\* relation_1, the slots it holds are pairwise distinct, each is an occupied
\* slot of kind k's store, and the record there has owner e and a relation_1
\* back-reference equal to the position of the slot in the entry; so the
\* references iter_comp_mut_by_entity(e, k) yields are to distinct records.
C20_ScopedDisjointness ==
    \A rkey \in DOMAIN relation_1 :
       LET sec == relation_1[rkey]
           e == rkey[1]
           kind == rkey[2]
       IN
       /\ \A p, q \in Range(SlabKeys(sec)) :
             p # q => Check(SlabGet(sec, p)) # Check(SlabGet(sec, q))
       /\ \A p \in Range(SlabKeys(sec)) :
             LET k == << kind, Check(SlabGet(sec, p)) >> IN
             /\ k \in LiveKeys
             /\ MetaOf(k).entity_key = e
             /\ MetaOf(k).relation_1 = p
       /\ Injective(Check(iter_comp_by_entity_slots(Store, e, kind)))

\* C20 witness: an entry of relation_1 with two slots, one of them at a
\* position that is not its slot number.
C20_Witness ==
    \E rkey \in DOMAIN relation_1 :
       /\ Len(SlabKeys(relation_1[rkey])) >= 2
       /\ \E p \in Range(SlabKeys(relation_1[rkey])) :
             Check(SlabGet(relation_1[rkey], p)) # p

\* ----------------------------------------------------------------- C21
\* C21: key reuse and aliasing (I4).  When a successful remove_comp((k, s)) is
\* followed at once by a successful insert_comp of a value of kind k, on any
\* live entity, the insertion returns the key (k, s), and the old key then
\* resolves through get_comp and get_entity_by_comp to the new value and the
\* new owner; when a successful remove_entity(e) is followed at once by
\* insert_entity, the insertion returns e.
C21_KeyReuse ==
    /\ [][ \A k \in CompKeys, e \in EntityKeys, c \in Comps :
             (/\ last.op = "remove_comp" /\ last.k = k /\ last.res # None
              /\ last'.op = "insert_comp" /\ last'.e = e /\ last'.c = Some(c)
              /\ last'.res # None
              /\ KindOf(c) = k[1]) =>
             /\ last'.res = Some(k)
             /\ GetComp(k)' = Some(c)
             /\ GetEntityByComp(k)' = Some(e)
         ]_vars
    /\ [][ \A e \in EntityKeys :
             (/\ last.op = "remove_entity" /\ last.e = e /\ last.res # None
              /\ last'.op = "insert_entity") =>
             /\ last'.res = Some(e)
             /\ GetEntity(e)' # None
         ]_vars

\* C21 witness: the sixth call is an insert_comp that returns (I32, 1) while
\* slot 0 of the store is vacant and no other component is live; the only
\* calls that lead there insert two I32 components, remove the one at slot 0
\* and then the one at slot 1, so the key returned is the key of the removal
\* just before it.
C21_Witness ==
    /\ calls = 6
    /\ last.op = "insert_comp" /\ last.res = Some(<< "I32", 1 >>)
    /\ Len(issued) = 1
    /\ DOMAIN comp_metas = {"I32"}
    /\ GetComp(<< "I32", 1 >>) = last.c
    /\ GetEntityByComp(<< "I32", 1 >>) = Some(last.e)

\* ----------------------------------------------------------------- C22
\* The live entity keys.
LiveEntities == {e \in EntityKeys : GetEntity(e) # None}

\* C22: fresh keys.  insert_entity returns a key that was not live just
\* before the call and is live after it; a successful insert_comp(e, v)
\* returns a key (k, s) that was not live just before the call, and the
\* record at slot s of kind k's store is then the new one (value v, owner e);
\* neither insertion changes the record of a component that was live or
\* ends the life of an entity.
C22_FreshKeys ==
    /\ [][ last'.op = "insert_entity" =>
             /\ \A e \in EntityKeys :
                   last'.res = Some(e) => GetEntity(e) = None /\ GetEntity(e)' # None
             /\ last'.res # None
             /\ \A k \in LiveKeys : LookupMeta(Store, k)' = LookupMeta(Store, k)
             /\ \A e \in LiveEntities : GetEntity(e)' # None
         ]_vars
    /\ [][ \A k \in CompKeys, e \in EntityKeys, c \in Comps :
             (/\ last'.op = "insert_comp" /\ last'.res = Some(k)
              /\ last'.e = e /\ last'.c = Some(c)) =>
             /\ k \notin LiveKeys
             /\ k = << KindOf(c), SlabVacantKey(OrDefault(comp_metas, KindOf(c))) >>
             /\ LookupMeta(Store, k)' # None
             /\ Check(LookupMeta(Store, k)').inner = c
             /\ Check(LookupMeta(Store, k)').entity_key = e
             /\ \A j \in LiveKeys : LookupMeta(Store, j)' = LookupMeta(Store, j)
             /\ \A d \in LiveEntities : GetEntity(d)' # None
             /\ Cardinality(LiveKeys') = Cardinality(LiveKeys) + 1
         ]_vars

\* C22 witness: an insert_comp that took a freed slot below the slot of
\* another live component of the same kind.
C22_Witness ==
    /\ last.op = "insert_comp" /\ last.res # None
    /\ \E k \in LiveKeys :
          /\ k[1] = Check(last.res)[1]
          /\ k[2] > Check(last.res)[2]
    /\ Check(LookupMeta(Store, Check(last.res))).inner = Check(last.c)

\* ----------------------------------------------------------------- C23
\* The occupied entries of the directories, as (entity, position) pairs.
DirectoryEntries ==
    UNION {{<< e, p >> : p \in Range(SlabKeys(relation_0[e]))} :
           e \in DOMAIN relation_0}

\* The occupied entries of the secondary index, as ((entity, kind), position)
\* pairs.
SecondaryEntries ==
    UNION {{<< rkey, p >> : p \in Range(SlabKeys(relation_1[rkey]))} :
           rkey \in DOMAIN relation_1}

\* C23: no dangling index entries.  Every occupied entry (k, s) at position p
\* of a directory relation_0[e] is the key of a live component whose owner is
\* e and whose directory back-reference is p; relation_0 has a directory only
\* for live entities; and the directory entries, the entries of relation_1
\* and the live components are equal in number.
C23_NoDanglingEntries ==
    /\ \A ep \in DirectoryEntries :
          LET k == Check(SlabGet(relation_0[ep[1]], ep[2])) IN
          /\ k \in LiveKeys
          /\ MetaOf(k).entity_key = ep[1]
          /\ MetaOf(k).relation_0 = ep[2]
    /\ DOMAIN relation_0 \subseteq LiveEntities
    /\ Cardinality(DirectoryEntries) = Cardinality(LiveKeys)
    /\ Cardinality(SecondaryEntries) = Cardinality(LiveKeys)

\* C23 witness: after a remove_comp, a directory with a vacant position below
\* an occupied one, whose owner still has a live component.
C23_Witness ==
    /\ last.op = "remove_comp" /\ last.res # None
    /\ \E ep \in DirectoryEntries : ~SlabContains(relation_0[ep[1]], 0)
    /\ Cardinality(LiveKeys) >= 1

====
